---- MODULE Spec2Model ----
(***************************************************************************)
(* SparkLink access-control core: one-time PIN gate (generatePin,          *)
(* isValidPin, consumePin, the PinGate / DebugPanel / RequestPinModal /    *)
(* ShareMenu handlers) and the 5-minute session window (revoke,            *)
(* checkSession) of src/components/SparkLinkApp.tsx.                       *)
(*                                                                         *)
(* Texts (JavaScript strings) are sequences of one-character strings, so   *)
(* that String(n), slice, trim and Number are computed character by        *)
(* character.                                                              *)
(*                                                                         *)
(* Every event handler runs to completion (none awaits), and React renders *)
(* and runs the effects of a state update before the next event, so each   *)
(* handler with its render and effects is one action. The one asynchronous *)
(* continuation, the then-callback of ShareMenu.copy, is an action of its  *)
(* own.                                                                   *)
(*                                                                         *)
(* Spec is the application with working storage. SessionSpec exercises     *)
(* revoke and checkSession from arbitrary session states, FaultSpec adds   *)
(* storage calls that throw, ContentSpec the export / import of the items  *)
(* as JSON text, TimedSpec the 5000 ms poll on its schedule, and TabsSpec   *)
(* a second tab of the same origin.                                        *)
(***************************************************************************)
EXTENDS Integers, Sequences, FiniteSets, Bags, TLC

VARIABLES
    phase,          \* "boot": rendered, effects not yet run; "run": mounted; "pure": helper harness
    now,            \* Date.now(), in ms since the first page load
    ticks,          \* number of clock advances so far (bounds the clock)
    pinState,       \* React state [activePin, usedPins] of SparkLinkApp
    localStorage,   \* key -> <<>> (missing) or <<value>> (stored JSON value)
    sessionStorage, \* key -> Null or text
    hasAccess,      \* React state hasAccess of SparkLinkApp
    input,          \* PinGate input text
    info,           \* PinGate info message
    requesting,     \* PinGate requesting flag (RequestPinModal open)
    pending,        \* ShareMenu.copy: bag of the usedPins captured by clipboard promises not yet settled
    lastOp,         \* history: what happened last: "verify", "checkSession", "load", "DebugPanel", else "other"
    ret,            \* history: result of the last isValidPin call
    redeemed,       \* history: PIN texts with which verify has succeeded
    startAt,        \* history: Date.now() of the last successful verify of this client session, or -1
    denied,         \* history: a checkSession has denied access and no verify has succeeded since
    storageFault,   \* environment: "none", "quota" (setItem throws) or "disabled" (every storage call throws)
    thrown,         \* the operation out of which an exception last escaped (uncaught error or rejected promise), else "none"
    items,          \* React state items of SparkLinkApp: the content records
    rawText,        \* SettingsView: `raw`, the text of the export / import textarea
    exported,       \* history: <<>>, or <<[list, changed]>>: the items exportData wrote into the textarea as
                    \* it stands, and whether the content store was changed since
    nextPoll,       \* time of the next setInterval(checkSession, 5000) callback; -1 where the schedule is left open
    otherTab        \* <<>>, or <<state>>: the state of a second tab of the same origin that is not in
                    \* front (its React state and its own session storage); local storage is shared

\* state that only the specifications FaultSpec, ContentSpec, TimedSpec and
\* TabsSpec move
faultVars == <<storageFault, thrown>>
contentVars == <<items, rawText, exported>>
ext == <<faultVars, contentVars, nextPoll, otherTab>>

vars == <<phase, now, ticks, pinState, localStorage, sessionStorage, hasAccess,
          input, info, requesting, pending, lastOp, ret, redeemed, startAt, denied, ext>>

----------------------------------------------------------------------------
(* Bounds *)

MaxDraw == 1
MaxTicks == 2
MaxPending == 1
MaxUsedLen == 2

----------------------------------------------------------------------------
(* Constants of the program *)

SESSION_OK_KEY == "spark.pin.ok"
SESSION_EXP_KEY == "spark.pin.expiresAt"
SESSION_TTL_MS == 5 * 60 * 1000
PIN_STATE_KEY == "spark.pinState"
TEST_PIN == <<"1", "1", "1", "-", "2", "2", "2">>
INVALID_MSG == "Invalid or already-used PIN."

----------------------------------------------------------------------------
(* JavaScript values and string primitives *)

\* null / undefined, kept a sequence so that it compares with texts
Null == <<"<null>">>
EmptyText == <<>>
DigitChars == <<"0", "1", "2", "3", "4", "5", "6", "7", "8", "9">>
DigitSet == {DigitChars[i] : i \in 1..10}

Elems(s) == {s[i] : i \in 1..Len(s)}

\* truthiness of a string-or-null value: null and "" are falsy
Truthy(v) == v # Null /\ v # EmptyText

\* String(n) for a non-negative integer n: its decimal digits
RECURSIVE String(_)
String(n) ==
    IF n < 10 THEN <<DigitChars[n + 1]>>
    ELSE Append(String(n \div 10), DigitChars[(n % 10) + 1])

\* s.slice(a, b) and s.slice(a) for 0 <= a
slice2(s, a, b) == SubSeq(s, a + 1, IF b < Len(s) THEN b ELSE Len(s))
slice1(s, a) == SubSeq(s, a + 1, Len(s))

\* s.trim(): strips leading and trailing white space
RECURSIVE trimStart(_)
trimStart(s) ==
    IF s # <<>> /\ Head(s) = " " THEN trimStart(Tail(s)) ELSE s
RECURSIVE trimEnd(_)
trimEnd(s) ==
    IF s # <<>> /\ s[Len(s)] = " " THEN trimEnd(SubSeq(s, 1, Len(s) - 1)) ELSE s
trim(s) == trimEnd(trimStart(s))

\* Number(s) for a non-empty text: the integer its decimal digits denote,
\* NaN when some character is no digit
DigitValue(c) == CHOOSE d \in 0..9 : DigitChars[d + 1] = c
RECURSIVE DecimalValue(_)
DecimalValue(s) ==
    IF s = <<>> THEN 0
    ELSE 10 * DecimalValue(SubSeq(s, 1, Len(s) - 1)) + DigitValue(s[Len(s)])
Number(s) ==
    IF Elems(s) \subseteq DigitSet
    THEN [isNaN |-> FALSE, val |-> DecimalValue(s)]
    ELSE [isNaN |-> TRUE, val |-> 0]
\* a < b on numbers: false when b is NaN
LessThan(a, b) == ~b.isNaN /\ a < b.val

\* /^\d{3}-\d{3}$/.test(s)
IsPinFormat(s) ==
    /\ Len(s) = 7
    /\ \A i \in {1, 2, 3, 5, 6, 7} : s[i] \in DigitSet
    /\ s[4] = "-"

\* Storage.getItem / setItem / removeItem on a key -> value map
getItem(store, key) == store[key]
setItem(store, key, value) == [store EXCEPT ![key] = value]
removeItem(store, key) == [store EXCEPT ![key] = Null]

\* JSON.stringify / JSON.parse of a pin state: a stored entry is <<value>>,
\* a missing one <<>> (strings and arrays of strings survive JSON unchanged)
JSON_stringify(v) == <<v>>
JSON_parse(raw) == raw[1]

----------------------------------------------------------------------------
(* PIN helpers *)

\* The values floor(Math.random() * 900000) the model draws: 0 (the least),
\* 11222 (the draw that yields the test PIN 111-222), 22444, ...
Draws == {(i * 11222) % 900000 : i \in 0..MaxDraw}

\* generatePin with r = floor(Math.random() * 900000), 0 <= r < 900000:
\* n = floor(100000 + Math.random() * 900000) = 100000 + r
generatePin_NoOffset(r) ==
    LET n == r
    IN  slice2(String(n), 0, 3) \o <<"-">> \o slice1(String(n), 3)
generatePin(r) ==
    LET n == 100000 + r
    IN  slice2(String(n), 0, 3) \o <<"-">> \o slice1(String(n), 3)

PinTexts == {generatePin(r) : r \in Draws} \cup {TEST_PIN}

\* Values of floor(Math.random() * 900000) at the ends of its range and where
\* the number of digits of r changes
EdgeDraws == {0, 9, 10, 99999, 100000, 899999}

\* isValidPin(pinState, input); pinState is always an object here and
\* usedPins always an array, so `!pinState` and `|| []` never apply
isValidPin_FormatOnly(S, c) ==
    IF ~Truthy(c) THEN FALSE
    ELSE IsPinFormat(c) /\ ~(c \in Elems(S.usedPins))
isValidPin_IgnoresUsed(S, c) ==
    IF ~Truthy(c) THEN FALSE
    ELSE c = S.activePin
isValidPin(S, c) ==
    IF ~Truthy(c) THEN FALSE
    ELSE c = S.activePin /\ ~(c \in Elems(S.usedPins))

\* consumePin(pinState, usedPin), r the draw of its generatePin() call
consumePin_DropsHistory(S, usedPin, r) ==
    [activePin |-> generatePin(r), usedPins |-> <<usedPin>>]
consumePin(S, usedPin, r) ==
    [activePin |-> generatePin(r), usedPins |-> Append(S.usedPins, usedPin)]

----------------------------------------------------------------------------
(* Session helpers of SparkLinkApp *)

NoSession == [k \in {SESSION_OK_KEY, SESSION_EXP_KEY} |-> Null]

revoke_KeepsAccess ==
    /\ sessionStorage' =
         removeItem(removeItem(sessionStorage, SESSION_OK_KEY), SESSION_EXP_KEY)
    /\ UNCHANGED hasAccess
revoke_OnlyIfGranted ==
    IF hasAccess
    THEN /\ sessionStorage' =
              removeItem(removeItem(sessionStorage, SESSION_OK_KEY), SESSION_EXP_KEY)
         /\ hasAccess' = FALSE
    ELSE UNCHANGED <<sessionStorage, hasAccess>>
revoke_KeepsExpiry ==
    /\ sessionStorage' = removeItem(sessionStorage, SESSION_OK_KEY)
    /\ hasAccess' = FALSE
revoke ==
    /\ sessionStorage' =
         removeItem(removeItem(sessionStorage, SESSION_OK_KEY), SESSION_EXP_KEY)
    /\ hasAccess' = FALSE

SessionLive_Inclusive(store, t) ==
    LET ok == getItem(store, SESSION_OK_KEY) = <<"1">>
        expRaw == getItem(store, SESSION_EXP_KEY)
        exp == IF Truthy(expRaw) THEN Number(expRaw) ELSE [isNaN |-> FALSE, val |-> 0]
    IN  ok /\ LessThan(t - 1, exp)
\* the test `ok && now < exp` of checkSession
SessionLive(store, t) ==
    LET ok == getItem(store, SESSION_OK_KEY) = <<"1">>
        expRaw == getItem(store, SESSION_EXP_KEY)
        exp == IF Truthy(expRaw) THEN Number(expRaw) ELSE [isNaN |-> FALSE, val |-> 0]
    IN  ok /\ LessThan(t, exp)

checkSession_Swapped ==
    IF ~SessionLive(sessionStorage, now)
    THEN hasAccess' = TRUE /\ UNCHANGED sessionStorage
    ELSE revoke
checkSession ==
    IF SessionLive(sessionStorage, now)
    THEN hasAccess' = TRUE /\ UNCHANGED sessionStorage
    ELSE revoke

\* The render gate `!hasAccess ? <PinGate/> : <main/>`: PinGate's own state
\* (input, info, requesting) lives only while hasAccess is false
PinGateState(inp, inf, req) ==
    IF hasAccess'
    THEN input' = EmptyText /\ info' = "" /\ requesting' = FALSE
    ELSE input' = inp /\ info' = inf /\ requesting' = req

\* The effect of useLocalStorage("spark.pinState", ...): after every render
\* the current value is written to localStorage
useLocalStorage_effect ==
    localStorage' = [localStorage EXCEPT ![PIN_STATE_KEY] = JSON_stringify(pinState')]

\* The initializer of useLocalStorage: the stored value, else `initial`
useLocalStorage_init(initial) ==
    LET raw == localStorage[PIN_STATE_KEY]
    IN  IF raw # <<>> THEN JSON_parse(raw) ELSE initial

----------------------------------------------------------------------------
(* Initial state: the first page load of a browser tab *)

\* What session storage may hold when the page loads: nothing, or entries
\* left by an earlier load in the same tab (possibly partial or damaged)
InitSessions ==
    {[k \in {SESSION_OK_KEY, SESSION_EXP_KEY} |->
        IF k = SESSION_OK_KEY THEN o ELSE e] :
        o \in {Null, <<"1">>}, e \in {Null, <<"x">>, String(2)}}

TimeSteps == {1, SESSION_TTL_MS - 1}

\* Texts a visitor types into the PIN box
TypedTexts == PinTexts \cup {<<" ">> \o TEST_PIN \o <<" ">>}

Init ==
    /\ phase = "boot"
    /\ now = 0
    /\ ticks = 0
    /\ \E r \in Draws : pinState = [activePin |-> generatePin(r), usedPins |-> <<>>]
    /\ localStorage = [k \in {PIN_STATE_KEY} |-> <<>>]
    /\ sessionStorage \in InitSessions
    /\ hasAccess = FALSE
    /\ input = EmptyText
    /\ info = ""
    /\ requesting = FALSE
    /\ pending = EmptyBag
    /\ lastOp = "init"
    /\ ret = "none"
    /\ redeemed = {}
    /\ startAt = -1
    /\ denied = FALSE
    /\ storageFault = "none"
    /\ thrown = "none"
    /\ items = <<>>
    /\ rawText = EmptyText
    /\ exported = <<>>
    /\ nextPoll = -1
    /\ otherTab = <<>>

----------------------------------------------------------------------------
(* Environment: the clock *)

Tick(d) ==
    /\ phase # "pure"
    /\ ticks < MaxTicks
    /\ now' = now + d
    /\ ticks' = ticks + 1
    /\ lastOp' = "other"
    /\ ret' = "none"
    /\ UNCHANGED <<phase, pinState, localStorage, sessionStorage, hasAccess, input,
                   info, requesting, pending, redeemed, startAt, denied, ext>>

----------------------------------------------------------------------------
(* SparkLinkApp: mount effects, timer, visibility, page load *)

\* The effects of the first render: useLocalStorage writes the pin state,
\* the mount effect runs the initial checkSession()
MountEffects ==
    /\ phase = "boot"
    /\ phase' = "run"
    /\ pinState' = pinState
    /\ useLocalStorage_effect
    /\ checkSession
    /\ PinGateState(input, info, requesting)
    /\ lastOp' = "checkSession"
    /\ ret' = "none"
    /\ denied' = (denied \/ ~hasAccess')
    /\ UNCHANGED <<now, ticks, pending, redeemed, startAt, ext>>

\* setInterval(checkSession, 5000)
Interval ==
    /\ phase = "run"
    /\ checkSession
    /\ PinGateState(input, info, requesting)
    /\ lastOp' = "checkSession"
    /\ ret' = "none"
    /\ denied' = (denied \/ ~hasAccess')
    /\ UNCHANGED <<phase, now, ticks, pinState, localStorage, pending, redeemed, startAt, ext>>

\* onVis: if (!document.hidden) checkSession()
onVis(hidden) ==
    /\ phase = "run"
    /\ IF ~hidden
       THEN checkSession /\ PinGateState(input, info, requesting)
                         /\ lastOp' = "checkSession"
                         /\ denied' = (denied \/ ~hasAccess')
       ELSE UNCHANGED <<sessionStorage, hasAccess, input, info, requesting, denied>>
                         /\ lastOp' = "other"
    /\ ret' = "none"
    /\ UNCHANGED <<phase, now, ticks, pinState, localStorage, pending, redeemed, startAt, ext>>

\* A page load: React state starts over (hasAccess false, pinState from
\* localStorage), pending promise callbacks are gone. keep = the tab stays
\* (reload, session storage kept); ~keep = the client was closed and
\* reopened (session storage starts empty)
PageLoad_AssumesFlag(keep) ==
    /\ phase = "run"
    /\ phase' = "boot"
    /\ sessionStorage' = IF keep THEN sessionStorage ELSE NoSession
    /\ hasAccess' = (sessionStorage'[SESSION_OK_KEY] = <<"1">>)
    /\ \E r \in Draws :
         pinState' = useLocalStorage_init([activePin |-> generatePin(r), usedPins |-> <<>>])
    /\ startAt' = IF keep THEN startAt ELSE -1
    /\ input' = EmptyText /\ info' = "" /\ requesting' = FALSE
    /\ pending' = EmptyBag
    /\ lastOp' = "load"
    /\ ret' = "none"
    /\ UNCHANGED <<now, ticks, localStorage, redeemed, denied, ext>>
PageLoad_KeepsSession(keep) ==
    /\ phase = "run"
    /\ phase' = "boot"
    /\ hasAccess' = FALSE
    /\ \E r \in Draws :
         pinState' = useLocalStorage_init([activePin |-> generatePin(r), usedPins |-> <<>>])
    /\ sessionStorage' = sessionStorage
    /\ startAt' = IF keep THEN startAt ELSE -1
    /\ input' = EmptyText /\ info' = "" /\ requesting' = FALSE
    /\ pending' = EmptyBag
    /\ lastOp' = "load"
    /\ ret' = "none"
    /\ UNCHANGED <<now, ticks, localStorage, redeemed, denied, ext>>
PageLoad(keep) ==
    /\ phase = "run"
    /\ phase' = "boot"
    /\ hasAccess' = FALSE
    /\ \E r \in Draws :
         pinState' = useLocalStorage_init([activePin |-> generatePin(r), usedPins |-> <<>>])
    /\ sessionStorage' = IF keep THEN sessionStorage ELSE NoSession
    /\ startAt' = IF keep THEN startAt ELSE -1
    /\ input' = EmptyText /\ info' = "" /\ requesting' = FALSE
    /\ pending' = EmptyBag
    /\ lastOp' = "load"
    /\ ret' = "none"
    /\ UNCHANGED <<now, ticks, localStorage, redeemed, denied, ext>>

----------------------------------------------------------------------------
(* PinGate (rendered while hasAccess is false) *)

PinGateMounted == phase = "run" /\ ~hasAccess

\* onChange of the PIN box: setInput(e.target.value)
setInput(t) ==
    /\ PinGateMounted
    /\ input' = t
    /\ lastOp' = "other"
    /\ ret' = "none"
    /\ UNCHANGED <<phase, now, ticks, pinState, localStorage, sessionStorage, hasAccess,
                   info, requesting, pending, redeemed, startAt, denied, ext>>

\* verify(), r the draw of consumePin's generatePin() call
verify_NoConsume(r) ==
    LET pin == trim(input)
    IN  /\ PinGateMounted
        /\ IF ~Truthy(pin)
           THEN /\ ret' = "none"
                /\ UNCHANGED <<pinState, localStorage, sessionStorage, hasAccess, input,
                               info, requesting, redeemed, startAt, denied>>
           ELSE IF isValidPin(pinState, pin)
           THEN /\ sessionStorage' =
                     setItem(setItem(sessionStorage, SESSION_OK_KEY, <<"1">>),
                             SESSION_EXP_KEY, String(now + SESSION_TTL_MS))
                /\ hasAccess' = TRUE
                /\ pinState' = [pinState EXCEPT !.activePin = generatePin(r)]
                /\ useLocalStorage_effect
                /\ PinGateState(input, "", requesting)
                /\ ret' = "true"
                /\ redeemed' = redeemed \cup {pin}
                /\ startAt' = now
                /\ denied' = FALSE
           ELSE /\ info' = INVALID_MSG
                /\ ret' = "false"
                /\ UNCHANGED <<pinState, localStorage, sessionStorage, hasAccess, input,
                               requesting, redeemed, startAt, denied>>
        /\ lastOp' = "verify"
        /\ UNCHANGED <<phase, now, ticks, pending, ext>>
verify_TellsUsed(r) ==
    LET pin == trim(input)
    IN  /\ PinGateMounted
        /\ IF ~Truthy(pin)
           THEN /\ ret' = "none"
                /\ UNCHANGED <<pinState, localStorage, sessionStorage, hasAccess, input,
                               info, requesting, redeemed, startAt, denied>>
           ELSE IF isValidPin(pinState, pin)
           THEN /\ sessionStorage' =
                     setItem(setItem(sessionStorage, SESSION_OK_KEY, <<"1">>),
                             SESSION_EXP_KEY, String(now + SESSION_TTL_MS))
                /\ hasAccess' = TRUE
                /\ pinState' = consumePin(pinState, pin, r)
                /\ useLocalStorage_effect
                /\ PinGateState(input, "", requesting)
                /\ ret' = "true"
                /\ redeemed' = redeemed \cup {pin}
                /\ startAt' = now
                /\ denied' = FALSE
           ELSE /\ info' = IF pin \in Elems(pinState.usedPins)
                           THEN "PIN already used." ELSE INVALID_MSG
                /\ ret' = "false"
                /\ UNCHANGED <<pinState, localStorage, sessionStorage, hasAccess, input,
                               requesting, redeemed, startAt, denied>>
        /\ lastOp' = "verify"
        /\ UNCHANGED <<phase, now, ticks, pending, ext>>
verify_ConsumesOnFail(r) ==
    LET pin == trim(input)
    IN  /\ PinGateMounted
        /\ IF ~Truthy(pin)
           THEN /\ ret' = "none"
                /\ UNCHANGED <<pinState, localStorage, sessionStorage, hasAccess, input,
                               info, requesting, redeemed, startAt, denied>>
           ELSE IF isValidPin(pinState, pin)
           THEN /\ sessionStorage' =
                     setItem(setItem(sessionStorage, SESSION_OK_KEY, <<"1">>),
                             SESSION_EXP_KEY, String(now + SESSION_TTL_MS))
                /\ hasAccess' = TRUE
                /\ pinState' = consumePin(pinState, pin, r)
                /\ useLocalStorage_effect
                /\ PinGateState(input, "", requesting)
                /\ ret' = "true"
                /\ redeemed' = redeemed \cup {pin}
                /\ startAt' = now
                /\ denied' = FALSE
           ELSE /\ info' = INVALID_MSG
                /\ pinState' = consumePin(pinState, pin, r)
                /\ useLocalStorage_effect
                /\ ret' = "false"
                /\ UNCHANGED <<sessionStorage, hasAccess, input,
                               requesting, redeemed, startAt, denied>>
        /\ lastOp' = "verify"
        /\ UNCHANGED <<phase, now, ticks, pending, ext>>
verify(r) ==
    LET pin == trim(input)
    IN  /\ PinGateMounted
        /\ IF ~Truthy(pin)
           THEN /\ ret' = "none"
                /\ UNCHANGED <<pinState, localStorage, sessionStorage, hasAccess, input,
                               info, requesting, redeemed, startAt, denied>>
           ELSE IF isValidPin(pinState, pin)
           THEN /\ sessionStorage' =
                     setItem(setItem(sessionStorage, SESSION_OK_KEY, <<"1">>),
                             SESSION_EXP_KEY, String(now + SESSION_TTL_MS))
                /\ hasAccess' = TRUE
                /\ pinState' = consumePin(pinState, pin, r)
                /\ useLocalStorage_effect
                /\ PinGateState(input, "", requesting)
                /\ ret' = "true"
                /\ redeemed' = redeemed \cup {pin}
                /\ startAt' = now
                /\ denied' = FALSE
           ELSE /\ info' = INVALID_MSG
                /\ ret' = "false"
                /\ UNCHANGED <<pinState, localStorage, sessionStorage, hasAccess, input,
                               requesting, redeemed, startAt, denied>>
        /\ lastOp' = "verify"
        /\ UNCHANGED <<phase, now, ticks, pending, ext>>

\* Developer Debug on the lock screen: "Set to 111-222"
PinGate_setTestPin_Unlocks ==
    /\ PinGateMounted
    /\ pinState' = [activePin |-> TEST_PIN, usedPins |-> pinState.usedPins]
    /\ useLocalStorage_effect
    /\ sessionStorage' =
         setItem(setItem(sessionStorage, SESSION_OK_KEY, <<"1">>),
                 SESSION_EXP_KEY, String(now + SESSION_TTL_MS))
    /\ hasAccess' = TRUE
    /\ PinGateState(TEST_PIN, info, requesting)
    /\ lastOp' = "other"
    /\ ret' = "none"
    /\ UNCHANGED <<phase, now, ticks, pending, redeemed, startAt, denied, ext>>
PinGate_setTestPin ==
    /\ PinGateMounted
    /\ pinState' = [activePin |-> TEST_PIN, usedPins |-> pinState.usedPins]
    /\ useLocalStorage_effect
    /\ input' = TEST_PIN
    /\ lastOp' = "other"
    /\ ret' = "none"
    /\ UNCHANGED <<phase, now, ticks, sessionStorage, hasAccess, info, requesting,
                   pending, redeemed, startAt, denied, ext>>

\* Developer Debug on the lock screen: "Rotate PIN"
PinGate_rotate(r) ==
    LET fresh == generatePin(r)
    IN  /\ PinGateMounted
        /\ pinState' = [activePin |-> fresh, usedPins |-> pinState.usedPins]
        /\ useLocalStorage_effect
        /\ input' = fresh
        /\ lastOp' = "other"
        /\ ret' = "none"
        /\ UNCHANGED <<phase, now, ticks, sessionStorage, hasAccess, info, requesting,
                       pending, redeemed, startAt, denied, ext>>

\* "Request a new PIN": setRequesting(true); Cancel: onClose
setRequesting(b) ==
    /\ PinGateMounted
    /\ requesting # b
    /\ requesting' = b
    /\ lastOp' = "other"
    /\ ret' = "none"
    /\ UNCHANGED <<phase, now, ticks, pinState, localStorage, sessionStorage, hasAccess,
                   input, info, pending, redeemed, startAt, denied, ext>>

\* RequestPinModal.send(): message is the text of the textarea; newPin is
\* the generatePin() value of the modal's last render
send(message) ==
    /\ PinGateMounted
    /\ requesting
    /\ IF ~Truthy(trim(message))
       THEN UNCHANGED <<pinState, localStorage, requesting>>
       ELSE \E r \in Draws :
              LET newPin == generatePin(r)
              IN  /\ pinState' = [activePin |-> newPin, usedPins |-> pinState.usedPins]
                  /\ useLocalStorage_effect
                  /\ requesting' = FALSE
    /\ lastOp' = "other"
    /\ ret' = "none"
    /\ UNCHANGED <<phase, now, ticks, sessionStorage, hasAccess, input, info,
                   pending, redeemed, startAt, denied, ext>>

----------------------------------------------------------------------------
(* DebugPanel (rendered in the profile while hasAccess is true) *)

\* (the route is not part of the state: the profile route is the initial
\* one and navigation touches nothing else that is modelled)
DebugPanelMounted == phase = "run" /\ hasAccess /\ Truthy(pinState.activePin)

DebugPanel_setTestPin ==
    /\ DebugPanelMounted
    /\ pinState' = [activePin |-> TEST_PIN, usedPins |-> pinState.usedPins]
    /\ useLocalStorage_effect
    /\ lastOp' = "DebugPanel"
    /\ ret' = "none"
    /\ UNCHANGED <<phase, now, ticks, sessionStorage, hasAccess, input, info,
                   requesting, pending, redeemed, startAt, denied, ext>>

DebugPanel_rotate_EndsSession(r) ==
    /\ DebugPanelMounted
    /\ pinState' = [activePin |-> generatePin(r), usedPins |-> pinState.usedPins]
    /\ useLocalStorage_effect
    /\ revoke
    /\ lastOp' = "DebugPanel"
    /\ ret' = "none"
    /\ UNCHANGED <<phase, now, ticks, input, info,
                   requesting, pending, redeemed, startAt, denied, ext>>
DebugPanel_rotate(r) ==
    /\ DebugPanelMounted
    /\ pinState' = [activePin |-> generatePin(r), usedPins |-> pinState.usedPins]
    /\ useLocalStorage_effect
    /\ lastOp' = "DebugPanel"
    /\ ret' = "none"
    /\ UNCHANGED <<phase, now, ticks, sessionStorage, hasAccess, input, info,
                   requesting, pending, redeemed, startAt, denied, ext>>

----------------------------------------------------------------------------
(* ShareMenu (always rendered, in the top bar) *)

\* copy(): starts navigator.clipboard.writeText(url); the callback closes
\* over the pinState of the render in which the button was clicked
copy ==
    /\ phase = "run"
    /\ BagCardinality(pending) < MaxPending
    /\ pending' = pending (+) SetToBag({pinState.usedPins})
    /\ lastOp' = "other"
    /\ ret' = "none"
    /\ UNCHANGED <<phase, now, ticks, pinState, localStorage, sessionStorage, hasAccess,
                   input, info, requesting, redeemed, startAt, denied, ext>>

\* A clipboard promise settles, captured being the usedPins its callback
\* closed over. Fulfilled: the `then` callback sets the pin state from the
\* captured usedPins and a fresh generatePin(). Rejected: there is no
\* handler, nothing happens.
copySettled(captured, fulfilled) ==
    /\ phase = "run"
    /\ BagIn(captured, pending)
    /\ pending' = pending (-) SetToBag({captured})
    /\ IF fulfilled
       THEN \E r \in Draws :
              /\ pinState' = [activePin |-> generatePin(r), usedPins |-> captured]
              /\ useLocalStorage_effect
       ELSE UNCHANGED <<pinState, localStorage>>
    /\ lastOp' = "other"
    /\ ret' = "none"
    /\ UNCHANGED <<phase, now, ticks, sessionStorage, hasAccess, input, info,
                   requesting, redeemed, startAt, denied, ext>>

----------------------------------------------------------------------------
(* The application *)

Messages == {EmptyText, <<" ">>, <<"h", "i">>}

Next ==
    \/ \E d \in TimeSteps : Tick(d)
    \/ MountEffects
    \/ Interval
    \/ \E hidden \in BOOLEAN : onVis(hidden)
    \/ \E keep \in BOOLEAN : PageLoad(keep)
    \/ \E t \in TypedTexts : setInput(t)
    \/ \E r \in Draws : verify(r)
    \/ PinGate_setTestPin
    \/ \E r \in Draws : PinGate_rotate(r)
    \/ \E b \in BOOLEAN : setRequesting(b)
    \/ \E m \in Messages : send(m)
    \/ DebugPanel_setTestPin
    \/ \E r \in Draws : DebugPanel_rotate(r)
    \/ copy
    \/ \E captured \in BagToSet(pending), f \in BOOLEAN : copySettled(captured, f)

Spec == Init /\ [][Next]_vars

----------------------------------------------------------------------------
(* The pure PIN helpers on their own: isValidPin and consumePin applied to  *)
(* every pin state and candidate of a bounded domain                        *)

BoundedSeq(S, n) == UNION {[1..k -> S] : k \in 0..n}

Candidates ==
    PinTexts \cup {EmptyText, <<" ">> \o TEST_PIN,
                   <<"9", "9", "9", "-", "9", "9", "9">>}

PureInit ==
    /\ phase = "pure"
    /\ now = 0
    /\ ticks = 0
    /\ pinState \in [activePin : PinTexts, usedPins : BoundedSeq(PinTexts, MaxUsedLen)]
    /\ localStorage = [k \in {PIN_STATE_KEY} |-> <<>>]
    /\ sessionStorage = NoSession
    /\ hasAccess = FALSE
    /\ input \in Candidates
    /\ info = ""
    /\ requesting = FALSE
    /\ pending = EmptyBag
    /\ lastOp = "init"
    /\ ret = "none"
    /\ redeemed = {}
    /\ startAt = -1
    /\ denied = FALSE
    /\ storageFault = "none"
    /\ thrown = "none"
    /\ items = <<>>
    /\ rawText = EmptyText
    /\ exported = <<>>
    /\ nextPoll = -1
    /\ otherTab = <<>>

\* isValidPin(pinState, input): the result is returned, nothing is written
Pure_isValidPin ==
    /\ phase = "pure"
    /\ ret' = IF isValidPin(pinState, input) THEN "true" ELSE "false"
    /\ lastOp' = "isValidPin"
    /\ UNCHANGED <<phase, now, ticks, pinState, localStorage, sessionStorage, hasAccess,
                   input, info, requesting, pending, redeemed, startAt, denied, ext>>

\* pinState := consumePin(pinState, pinState.activePin), as the self-test
\* does with state0 and its active PIN
Pure_consumePin(r) ==
    /\ phase = "pure"
    /\ Len(pinState.usedPins) <= MaxUsedLen
    /\ pinState' = consumePin(pinState, pinState.activePin, r)
    /\ lastOp' = "consumePin"
    /\ ret' = "none"
    /\ UNCHANGED <<phase, now, ticks, localStorage, sessionStorage, hasAccess,
                   input, info, requesting, pending, redeemed, startAt, denied, ext>>

PureNext ==
    \/ Pure_isValidPin
    \/ \E r \in Draws : Pure_consumePin(r)

PureSpec == PureInit /\ [][PureNext]_vars

----------------------------------------------------------------------------
(* The session helpers on their own: revoke, checkSession and the start of  *)
(* a session (the three session lines of verify) applied from every         *)
(* combination of stored flag, stored expiry and access                     *)

SessionInit ==
    /\ phase = "session"
    /\ now = 0
    /\ ticks = 0
    /\ \E r \in Draws : pinState = [activePin |-> generatePin(r), usedPins |-> <<>>]
    /\ localStorage = [k \in {PIN_STATE_KEY} |-> <<>>]
    /\ sessionStorage \in InitSessions
    /\ hasAccess \in BOOLEAN
    /\ input = EmptyText
    /\ info = ""
    /\ requesting = FALSE
    /\ pending = EmptyBag
    /\ lastOp = "init"
    /\ ret = "none"
    /\ redeemed = {}
    /\ startAt = -1
    /\ denied = FALSE
    /\ storageFault = "none"
    /\ thrown = "none"
    /\ items = <<>>
    /\ rawText = EmptyText
    /\ exported = <<>>
    /\ nextPoll = -1
    /\ otherTab = <<>>

\* revoke(); lastOp tells a call that follows another call of revoke
Session_revoke ==
    /\ phase = "session"
    /\ revoke
    /\ lastOp' = IF lastOp \in {"revoke", "revoke twice"} THEN "revoke twice" ELSE "revoke"
    /\ UNCHANGED <<phase, now, ticks, pinState, localStorage, input, info, requesting,
                   pending, ret, redeemed, startAt, denied, ext>>

\* checkSession()
Session_checkSession ==
    /\ phase = "session"
    /\ checkSession
    /\ lastOp' = "checkSession"
    /\ UNCHANGED <<phase, now, ticks, pinState, localStorage, input, info, requesting,
                   pending, ret, redeemed, startAt, denied, ext>>

\* the start of a session window in verify(): both keys set, access granted
Session_start ==
    /\ phase = "session"
    /\ sessionStorage' =
         setItem(setItem(sessionStorage, SESSION_OK_KEY, <<"1">>),
                 SESSION_EXP_KEY, String(now + SESSION_TTL_MS))
    /\ hasAccess' = TRUE
    /\ startAt' = now
    /\ lastOp' = "start"
    /\ UNCHANGED <<phase, now, ticks, pinState, localStorage, input, info, requesting,
                   pending, ret, redeemed, denied, ext>>

SessionNext ==
    \/ \E d \in TimeSteps : Tick(d)
    \/ Session_revoke
    \/ Session_checkSession
    \/ Session_start

SessionSpec == SessionInit /\ [][SessionNext]_vars

----------------------------------------------------------------------------
(* The application with storage calls that throw. storageFault = "quota":   *)
(* every setItem throws (storage full, private browsing); "disabled": every *)
(* call on localStorage and sessionStorage throws. thrown names the         *)
(* operation out of which an exception last escaped. An error thrown while  *)
(* rendering or in an effect makes React unmount the application (phase     *)
(* "crashed"); an error in a timer callback or event handler does not.      *)

Faults == {"none", "quota", "disabled"}

\* the environment: storage starts or stops failing while the page is shown
F_setFault(f) ==
    /\ phase = "run"
    /\ f # storageFault
    /\ storageFault' = f
    /\ lastOp' = "other"
    /\ ret' = "none"
    /\ UNCHANGED <<phase, now, ticks, pinState, localStorage, sessionStorage, hasAccess,
                   input, info, requesting, pending, redeemed, startAt, denied,
                   thrown, contentVars, nextPoll, otherTab>>

\* A reload. SparkLinkApp renders: the theme initializer (line 94) reads
\* localStorage outside any try, then useLocalStorage reads the pin state
\* inside one
F_PageLoad ==
    /\ phase \in {"run", "crashed"}
    /\ hasAccess' = FALSE
    /\ IF storageFault = "disabled"
       THEN /\ phase' = "crashed"
            /\ thrown' = "render"
            /\ UNCHANGED pinState
       ELSE /\ phase' = "boot"
            /\ thrown' = "none"
            /\ \E r \in Draws :
                 pinState' = useLocalStorage_init([activePin |-> generatePin(r), usedPins |-> <<>>])
    /\ input' = EmptyText /\ info' = "" /\ requesting' = FALSE
    /\ pending' = EmptyBag
    /\ lastOp' = "load"
    /\ ret' = "none"
    /\ UNCHANGED <<now, ticks, localStorage, sessionStorage, redeemed, startAt, denied,
                   storageFault, contentVars, nextPoll, otherTab>>

\* The effects of the first render: useLocalStorage's setItem is inside a
\* try; the theme effect (line 131) calls setItem outside any try, and when
\* it throws React unmounts the application after the effects of the commit
\* (whether the mount effect's checkSession still ran is left open)
F_MountEffects ==
    /\ phase = "boot"
    /\ pinState' = pinState
    /\ IF storageFault = "none"
       THEN /\ phase' = "run"
            /\ useLocalStorage_effect
            /\ checkSession
            /\ PinGateState(input, info, requesting)
            /\ UNCHANGED thrown
       ELSE /\ phase' = "crashed"
            /\ thrown' = "themeEffect"
            /\ hasAccess' = FALSE
            /\ sessionStorage' \in
                 {sessionStorage,
                  IF SessionLive(sessionStorage, now) THEN sessionStorage ELSE NoSession}
            /\ UNCHANGED <<localStorage, input, info, requesting>>
    /\ lastOp' = "checkSession"
    /\ ret' = "none"
    /\ denied' = (denied \/ ~hasAccess')
    /\ UNCHANGED <<now, ticks, pending, redeemed, startAt,
                   storageFault, contentVars, nextPoll, otherTab>>

\* setInterval(checkSession, 5000). When getItem throws, the catch of
\* checkSession calls revoke(), whose removeItem throws again: the exception
\* leaves checkSession before setHasAccess(false)
F_Interval ==
    /\ phase = "run"
    /\ IF storageFault = "disabled"
       THEN /\ thrown' = "checkSession"
            /\ UNCHANGED <<sessionStorage, hasAccess, input, info, requesting>>
       ELSE /\ checkSession
            /\ PinGateState(input, info, requesting)
            /\ thrown' = "none"
    /\ lastOp' = "checkSession"
    /\ ret' = "none"
    /\ denied' = (denied \/ ~hasAccess')
    /\ UNCHANGED <<phase, now, ticks, pinState, localStorage, pending, redeemed, startAt,
                   storageFault, contentVars, nextPoll, otherTab>>

\* verify(): sessionStorage.setItem (line 325) is outside any try; when it
\* throws, the async function's promise is rejected and nothing after line
\* 325 runs
F_verify(r) ==
    LET pin == trim(input)
    IN  /\ PinGateMounted
        /\ IF ~Truthy(pin)
           THEN /\ ret' = "none"
                /\ thrown' = "none"
                /\ UNCHANGED <<pinState, localStorage, sessionStorage, hasAccess, input,
                               info, requesting, redeemed, startAt, denied>>
           ELSE IF isValidPin(pinState, pin)
           THEN IF storageFault = "none"
                THEN /\ sessionStorage' =
                          setItem(setItem(sessionStorage, SESSION_OK_KEY, <<"1">>),
                                  SESSION_EXP_KEY, String(now + SESSION_TTL_MS))
                     /\ hasAccess' = TRUE
                     /\ pinState' = consumePin(pinState, pin, r)
                     /\ useLocalStorage_effect
                     /\ PinGateState(input, "", requesting)
                     /\ ret' = "true"
                     /\ thrown' = "none"
                     /\ redeemed' = redeemed \cup {pin}
                     /\ startAt' = now
                     /\ denied' = FALSE
                ELSE /\ ret' = "true"
                     /\ thrown' = "verify"
                     /\ UNCHANGED <<pinState, localStorage, sessionStorage, hasAccess, input,
                                    info, requesting, redeemed, startAt, denied>>
           ELSE /\ info' = INVALID_MSG
                /\ ret' = "false"
                /\ thrown' = "none"
                /\ UNCHANGED <<pinState, localStorage, sessionStorage, hasAccess, input,
                               requesting, redeemed, startAt, denied>>
        /\ lastOp' = "verify"
        /\ UNCHANGED <<phase, now, ticks, pending, storageFault, contentVars, nextPoll, otherTab>>

\* PinGate.rotate(): the new pin state is saved by useLocalStorage's effect,
\* whose setItem is inside a try: when it throws the pin state lives in
\* memory only
F_rotate(r) ==
    LET fresh == generatePin(r)
    IN  /\ PinGateMounted
        /\ pinState' = [activePin |-> fresh, usedPins |-> pinState.usedPins]
        /\ IF storageFault = "none" THEN useLocalStorage_effect ELSE UNCHANGED localStorage
        /\ input' = fresh
        /\ thrown' = "none"
        /\ lastOp' = "other"
        /\ ret' = "none"
        /\ UNCHANGED <<phase, now, ticks, sessionStorage, hasAccess, info, requesting,
                       pending, redeemed, startAt, denied,
                       storageFault, contentVars, nextPoll, otherTab>>

FaultNext ==
    \/ \E d \in TimeSteps : Tick(d)
    \/ \E f \in Faults : F_setFault(f)
    \/ F_PageLoad
    \/ F_MountEffects
    \/ F_Interval
    \/ \E t \in TypedTexts : setInput(t)
    \/ \E r \in Draws : F_verify(r)
    \/ \E r \in Draws : F_rotate(r)

FaultSpec == Init /\ [][FaultNext]_vars

----------------------------------------------------------------------------
(* JSON text: JSON.stringify and JSON.parse on the values a content record  *)
(* is made of. A value is a string, a non-negative integer, an array or an  *)
(* object (its members in insertion order). The literals true, false and    *)
(* null, negative numbers and fractions occur in none of the texts drawn.   *)

MaxItems == 2

StrV(c) == [t |-> "string", s |-> c]
NumV(n) == [t |-> "number", n |-> n]
ArrV(a) == [t |-> "array", a |-> a]
ObjV(m) == [t |-> "object", m |-> m]
UndefinedV == [t |-> "undefined"]

QUOTE == "\""
BACKSLASH == "\\"
NEWLINE == "\n"

Spaces(n) == [i \in 1..n |-> " "]

\* the characters JSON.stringify writes for one character of a string
EscapeChar_NoEscape(ch) == <<ch>>
EscapeChar(ch) ==
    IF ch = QUOTE THEN <<BACKSLASH, QUOTE>>
    ELSE IF ch = BACKSLASH THEN <<BACKSLASH, BACKSLASH>>
    ELSE IF ch = NEWLINE THEN <<BACKSLASH, "n">>
    ELSE <<ch>>
RECURSIVE EscapeAll(_)
EscapeAll(c) == IF c = <<>> THEN <<>> ELSE EscapeChar(Head(c)) \o EscapeAll(Tail(c))
Quote(c) == <<QUOTE>> \o EscapeAll(c) \o <<QUOTE>>

\* JSON.stringify(v, null, 2) when pretty, JSON.stringify(v) when not; ind
\* is the indentation of the line the value starts on
LineBreak(ind, pretty) == IF pretty THEN <<NEWLINE>> \o Spaces(ind) ELSE <<>>
RECURSIVE Stringify(_, _, _)
RECURSIVE StringifyElems(_, _, _, _)
RECURSIVE StringifyMembers(_, _, _, _)
Stringify(v, ind, pretty) ==
    CASE v.t = "string" -> Quote(v.s)
      [] v.t = "number" -> String(v.n)
      [] v.t = "array" ->
           IF v.a = <<>> THEN <<"[", "]">>
           ELSE <<"[">> \o StringifyElems(v.a, 1, ind + 2, pretty)
                       \o LineBreak(ind, pretty) \o <<"]">>
      [] v.t = "object" ->
           IF v.m = <<>> THEN <<"{", "}">>
           ELSE <<"{">> \o StringifyMembers(v.m, 1, ind + 2, pretty)
                       \o LineBreak(ind, pretty) \o <<"}">>
StringifyElems(a, i, ind, pretty) ==
    LineBreak(ind, pretty) \o Stringify(a[i], ind, pretty)
        \o (IF i < Len(a) THEN <<",">> \o StringifyElems(a, i + 1, ind, pretty) ELSE <<>>)
StringifyMembers(m, i, ind, pretty) ==
    LineBreak(ind, pretty) \o Quote(m[i].k) \o <<":">> \o (IF pretty THEN <<" ">> ELSE <<>>)
        \o Stringify(m[i].v, ind, pretty)
        \o (IF i < Len(m) THEN <<",">> \o StringifyMembers(m, i + 1, ind, pretty) ELSE <<>>)

\* JSON.parse: a result is [ok, v, i], i the position after the value read;
\* ok = FALSE stands for the SyntaxError
ParseError == [ok |-> FALSE, v |-> UndefinedV, i |-> 0]
At(text, i) == IF i <= Len(text) THEN text[i] ELSE ""
RECURSIVE SkipWs(_, _)
SkipWs(text, i) == IF At(text, i) \in {" ", NEWLINE} THEN SkipWs(text, i + 1) ELSE i
RECURSIVE DigitsEnd(_, _)
DigitsEnd(text, i) == IF At(text, i) \in DigitSet THEN DigitsEnd(text, i + 1) ELSE i
ParseNumber(text, i) ==
    LET j == DigitsEnd(text, i)
    IN  IF At(text, i) = "0" /\ j > i + 1 THEN ParseError
        ELSE [ok |-> TRUE, v |-> NumV(DecimalValue(SubSeq(text, i, j - 1))), i |-> j]
\* the characters of a string literal from position i on, up to the closing quote
RECURSIVE ParseChars(_, _, _)
ParseChars(text, i, acc) ==
    LET ch == At(text, i)
    IN  IF ch = "" \/ ch = NEWLINE THEN ParseError
        ELSE IF ch = QUOTE THEN [ok |-> TRUE, v |-> StrV(acc), i |-> i + 1]
        ELSE IF ch = BACKSLASH
        THEN LET e == At(text, i + 1)
             IN  IF e \in {QUOTE, BACKSLASH, "/"} THEN ParseChars(text, i + 2, Append(acc, e))
                 ELSE IF e = "n" THEN ParseChars(text, i + 2, Append(acc, NEWLINE))
                 ELSE ParseError
        ELSE ParseChars(text, i + 1, Append(acc, ch))
RECURSIVE ParseValue(_, _)
RECURSIVE ParseElems(_, _, _)
RECURSIVE ParseMembers(_, _, _)
ParseValue(text, i0) ==
    LET i == SkipWs(text, i0)
        ch == At(text, i)
    IN  IF ch = QUOTE THEN ParseChars(text, i + 1, <<>>)
        ELSE IF ch \in DigitSet THEN ParseNumber(text, i)
        ELSE IF ch = "["
        THEN LET j == SkipWs(text, i + 1)
             IN  IF At(text, j) = "]" THEN [ok |-> TRUE, v |-> ArrV(<<>>), i |-> j + 1]
                 ELSE ParseElems(text, j, <<>>)
        ELSE IF ch = "{"
        THEN LET j == SkipWs(text, i + 1)
             IN  IF At(text, j) = "}" THEN [ok |-> TRUE, v |-> ObjV(<<>>), i |-> j + 1]
                 ELSE ParseMembers(text, j, <<>>)
        ELSE ParseError
ParseElems(text, i, acc) ==
    LET r == ParseValue(text, i)
    IN  IF ~r.ok THEN ParseError
        ELSE LET k == SkipWs(text, r.i)
             IN  IF At(text, k) = "," THEN ParseElems(text, k + 1, Append(acc, r.v))
                 ELSE IF At(text, k) = "]"
                 THEN [ok |-> TRUE, v |-> ArrV(Append(acc, r.v)), i |-> k + 1]
                 ELSE ParseError
ParseMembers(text, i0, acc) ==
    LET i == SkipWs(text, i0)
    IN  IF At(text, i) # QUOTE THEN ParseError
        ELSE LET key == ParseChars(text, i + 1, <<>>)
             IN  IF ~key.ok THEN ParseError
                 ELSE LET c == SkipWs(text, key.i)
                      IN  IF At(text, c) # ":" THEN ParseError
                          ELSE LET r == ParseValue(text, c + 1)
                               IN  IF ~r.ok THEN ParseError
                                   ELSE LET k == SkipWs(text, r.i)
                                            members == Append(acc, [k |-> key.v.s, v |-> r.v])
                                        IN  IF At(text, k) = ","
                                            THEN ParseMembers(text, k + 1, members)
                                            ELSE IF At(text, k) = "}"
                                            THEN [ok |-> TRUE, v |-> ObjV(members), i |-> k + 1]
                                            ELSE ParseError
\* JSON.parse(text)
Parse(text) ==
    LET r == ParseValue(text, 1)
    IN  IF r.ok /\ SkipWs(text, r.i) = Len(text) + 1 THEN r ELSE ParseError

\* v[key] of a parsed value: undefined when v is no object or has no such
\* member; of members with the same key JSON.parse keeps the last
Member(v, key) ==
    IF v.t # "object" THEN UndefinedV
    ELSE LET hits == {i \in 1..Len(v.m) : v.m[i].k = key}
         IN  IF hits = {} THEN UndefinedV
             ELSE v.m[CHOOSE i \in hits : \A j \in hits : j <= i].v

----------------------------------------------------------------------------
(* The content store and SettingsView's export / import, during a granted   *)
(* session                                                                  *)

STORAGE_KEY == "spark.items.v1"
ITEMS == <<"i", "t", "e", "m", "s">>
ID == <<"i", "d">>

\* content records as Uploader.submit and demoItems build them, cut down to
\* one field of each kind: id, title (free text), tags, createdAt
Item(id, title, tags, createdAt) ==
    ObjV(<<[k |-> ID, v |-> StrV(id)],
           [k |-> <<"t", "i", "t", "l", "e">>, v |-> StrV(title)],
           [k |-> <<"t", "a", "g", "s">>, v |-> ArrV(tags)],
           [k |-> <<"c", "r", "e", "a", "t", "e", "d", "A", "t">>, v |-> NumV(createdAt)]>>)
Ids == {<<"a">>, <<"b">>}
Titles == {<<"h", "i">>, <<"a", QUOTE, " ", BACKSLASH, NEWLINE, "}">>}
Items ==
    {Item(id, title,
          IF id = <<"a">> THEN <<>> ELSE <<StrV(<<"t", ",">>), StrV(<<>>)>>,
          IF title = <<"h", "i">> THEN 0 ELSE 105) : id \in Ids, title \in Titles}
ItemLists == UNION {[1..k -> Items] : k \in 0..MaxItems}

\* the useLocalStorage effect of the items state
useLocalStorage_items ==
    localStorage' =
      [localStorage EXCEPT ![STORAGE_KEY] = <<Stringify(ArrV(items'), 0, FALSE)>>]

ContentInit ==
    /\ phase = "run"
    /\ now = 0
    /\ ticks = 0
    /\ \E r \in Draws :
         pinState = consumePin([activePin |-> TEST_PIN, usedPins |-> <<>>], TEST_PIN, r)
    /\ items \in ItemLists
    /\ localStorage = [k \in {PIN_STATE_KEY, STORAGE_KEY} |->
                          IF k = PIN_STATE_KEY THEN JSON_stringify(pinState)
                          ELSE <<Stringify(ArrV(items), 0, FALSE)>>]
    /\ sessionStorage =
         setItem(setItem(NoSession, SESSION_OK_KEY, <<"1">>),
                 SESSION_EXP_KEY, String(SESSION_TTL_MS))
    /\ hasAccess = TRUE
    /\ input = EmptyText
    /\ info = ""
    /\ requesting = FALSE
    /\ pending = EmptyBag
    /\ lastOp = "init"
    /\ ret = "none"
    /\ redeemed = {TEST_PIN}
    /\ startAt = 0
    /\ denied = FALSE
    /\ storageFault = "none"
    /\ thrown = "none"
    /\ rawText = EmptyText
    /\ exported = <<>>
    /\ nextPoll = -1
    /\ otherTab = <<>>

\* exportData(): setRaw(JSON.stringify({ items }, null, 2))
exportData ==
    /\ phase = "run" /\ hasAccess
    /\ rawText' = Stringify(ObjV(<<[k |-> ITEMS, v |-> ArrV(items)]>>), 0, TRUE)
    /\ exported' = <<[list |-> items, changed |-> FALSE]>>
    /\ lastOp' = "exportData"
    /\ ret' = "none"
    /\ UNCHANGED <<phase, now, ticks, pinState, localStorage, sessionStorage, hasAccess,
                   input, info, requesting, pending, redeemed, startAt, denied,
                   faultVars, items, nextPoll, otherTab>>

\* importData(); ret is the alert it shows
importData ==
    LET parsed == Parse(rawText)
        list == Member(parsed.v, ITEMS)
    IN  /\ phase = "run" /\ hasAccess
        /\ IF ~parsed.ok
           THEN ret' = "Invalid JSON" /\ UNCHANGED <<items, localStorage>>
           ELSE IF list.t = "array"
           THEN /\ items' = list.a
                /\ useLocalStorage_items
                /\ ret' = "Imported!"
           ELSE ret' = "none" /\ UNCHANGED <<items, localStorage>>
        /\ lastOp' = "importData"
        /\ UNCHANGED <<phase, now, ticks, pinState, sessionStorage, hasAccess,
                       input, info, requesting, pending, redeemed, startAt, denied,
                       faultVars, rawText, exported, nextPoll, otherTab>>

\* texts pasted or typed into the textarea
RawTexts ==
    {EmptyText,
     <<"{", "}">>,
     <<"{", QUOTE, "i", "t", "e", "m", "s", QUOTE, ":", "[", "7", ",", "]", "}">>,
     <<"{", QUOTE, "i", "t", "e", "m", "s", QUOTE, ":", " ", "[", " ", "7", " ", "]", "}">>}

\* onChange of the textarea: setRaw(e.target.value)
setRaw(text) ==
    /\ phase = "run" /\ hasAccess
    /\ rawText' = text
    /\ exported' = <<>>
    /\ lastOp' = "other"
    /\ ret' = "none"
    /\ UNCHANGED <<phase, now, ticks, pinState, localStorage, sessionStorage, hasAccess,
                   input, info, requesting, pending, redeemed, startAt, denied,
                   faultVars, items, nextPoll, otherTab>>

\* SparkLinkApp's removeItem(id) (Delete in the feed):
\* setItems(prev => prev.filter(p => p.id !== id))
SparkLinkApp_removeItem(id) ==
    /\ phase = "run" /\ hasAccess
    /\ items' = SelectSeq(items, LAMBDA p : Member(p, ID) # StrV(id))
    /\ items' # items
    /\ useLocalStorage_items
    /\ exported' = IF exported = <<>> THEN <<>>
                   ELSE <<[list |-> exported[1].list, changed |-> TRUE]>>
    /\ lastOp' = "other"
    /\ ret' = "none"
    /\ UNCHANGED <<phase, now, ticks, pinState, sessionStorage, hasAccess,
                   input, info, requesting, pending, redeemed, startAt, denied,
                   faultVars, rawText, nextPoll, otherTab>>

ContentNext ==
    \/ exportData
    \/ importData
    \/ \E text \in RawTexts : setRaw(text)
    \/ \E id \in Ids : SparkLinkApp_removeItem(id)

ContentSpec == ContentInit /\ [][ContentNext]_vars

----------------------------------------------------------------------------
(* The application with the poll on schedule: the timer that the mount      *)
(* effect starts fires every POLL_MS from the mount on, and the clock does  *)
(* not pass a poll that is due. While the gate is locked the clock is       *)
(* bounded by MaxTicks; during a granted session it runs from poll to poll. *)
(* One mount of the page is followed: a reload starts a new schedule with   *)
(* a check of its own.                                                      *)

\* the delay of setInterval(checkSession, 5000)
POLL_MS_Slow == 2 * 5000
POLL_MS == 5000

\* the clock advances by d, not beyond the next poll
T_Tick(d) ==
    /\ phase = "run"
    /\ ticks < MaxTicks
    /\ now + d <= nextPoll
    /\ now' = now + d
    /\ ticks' = ticks + 1
    /\ lastOp' = "other"
    /\ ret' = "none"
    /\ UNCHANGED <<phase, pinState, localStorage, sessionStorage, hasAccess, input,
                   info, requesting, pending, redeemed, startAt, denied, ext>>

\* the clock advances to the next poll
T_ToPoll ==
    /\ phase = "run"
    /\ now < nextPoll
    /\ hasAccess \/ ticks < MaxTicks
    /\ now' = nextPoll
    /\ ticks' = IF hasAccess THEN ticks ELSE ticks + 1
    /\ lastOp' = "other"
    /\ ret' = "none"
    /\ UNCHANGED <<phase, pinState, localStorage, sessionStorage, hasAccess, input,
                   info, requesting, pending, redeemed, startAt, denied, ext>>

\* the effects of the first render; the mount effect starts the timer
T_MountEffects ==
    /\ phase = "boot"
    /\ phase' = "run"
    /\ pinState' = pinState
    /\ useLocalStorage_effect
    /\ checkSession
    /\ PinGateState(input, info, requesting)
    /\ nextPoll' = now + POLL_MS
    /\ lastOp' = "checkSession"
    /\ ret' = "none"
    /\ denied' = (denied \/ ~hasAccess')
    /\ UNCHANGED <<now, ticks, pending, redeemed, startAt, faultVars, contentVars, otherTab>>

\* the timer callback, at the time it is due
T_Interval ==
    /\ phase = "run"
    /\ now = nextPoll
    /\ checkSession
    /\ PinGateState(input, info, requesting)
    /\ nextPoll' = nextPoll + POLL_MS
    /\ lastOp' = "checkSession"
    /\ ret' = "none"
    /\ denied' = (denied \/ ~hasAccess')
    /\ UNCHANGED <<phase, now, ticks, pinState, localStorage, pending, redeemed, startAt,
                   faultVars, contentVars, otherTab>>

TimedSteps == {1, POLL_MS - 1}

TimedNext ==
    \/ \E d \in TimedSteps : T_Tick(d)
    \/ T_ToPoll
    \/ T_MountEffects
    \/ T_Interval
    \/ \E t \in TypedTexts : setInput(t)
    \/ \E r \in Draws : verify(r)

\* the clock reaches every poll and the timer callback runs when it is due
TimedSpec ==
    Init /\ [][TimedNext]_vars /\ WF_vars(T_ToPoll) /\ WF_vars(T_Interval)

----------------------------------------------------------------------------
(* Two tabs of the same origin. Each tab is an instance of SparkLinkApp     *)
(* with its own React state and its own session storage; local storage is   *)
(* the one of the origin. The code registers no storage-event listener and  *)
(* reads local storage only in the initializer of useLocalStorage, so a     *)
(* tab keeps the pin state it loaded until it writes one itself. The        *)
(* variables of the application are those of the tab in front, otherTab     *)
(* holds the other one, and handlers of either tab interleave through       *)
(* SwitchTab.                                                               *)

\* the state of the tab in front
TabState ==
    [phase |-> phase, pinState |-> pinState, sessionStorage |-> sessionStorage,
     hasAccess |-> hasAccess, input |-> input, info |-> info,
     requesting |-> requesting, pending |-> pending, startAt |-> startAt,
     denied |-> denied]

\* A second tab is opened on the page: it renders with hasAccess false, an
\* empty session storage of its own, and the pin state useLocalStorage reads
\* from local storage
OpenTab ==
    /\ phase = "run"
    /\ otherTab = <<>>
    /\ otherTab' = <<TabState>>
    /\ phase' = "boot"
    /\ hasAccess' = FALSE
    /\ \E r \in Draws :
         pinState' = useLocalStorage_init([activePin |-> generatePin(r), usedPins |-> <<>>])
    /\ sessionStorage' = NoSession
    /\ startAt' = -1
    /\ denied' = FALSE
    /\ input' = EmptyText /\ info' = "" /\ requesting' = FALSE
    /\ pending' = EmptyBag
    /\ lastOp' = "load"
    /\ ret' = "none"
    /\ UNCHANGED <<now, ticks, localStorage, redeemed, faultVars, contentVars, nextPoll>>

\* the other tab comes to the front: nothing runs, the two states trade places
SwitchTab ==
    /\ phase = "run"
    /\ otherTab # <<>>
    /\ otherTab[1].phase = "run"
    /\ otherTab' = <<TabState>>
    /\ phase' = otherTab[1].phase
    /\ pinState' = otherTab[1].pinState
    /\ sessionStorage' = otherTab[1].sessionStorage
    /\ hasAccess' = otherTab[1].hasAccess
    /\ input' = otherTab[1].input
    /\ info' = otherTab[1].info
    /\ requesting' = otherTab[1].requesting
    /\ pending' = otherTab[1].pending
    /\ startAt' = otherTab[1].startAt
    /\ denied' = otherTab[1].denied
    /\ lastOp' = "switch"
    /\ ret' = "none"
    /\ UNCHANGED <<now, ticks, localStorage, redeemed, faultVars, contentVars, nextPoll>>

TabsInit == Init /\ sessionStorage = NoSession

TabsNext ==
    \/ OpenTab
    \/ SwitchTab
    \/ MountEffects
    \/ \E t \in TypedTexts : setInput(t)
    \/ \E r \in Draws : verify(r)
    \/ \E r \in Draws : PinGate_rotate(r)
    \/ \E r \in Draws : DebugPanel_rotate(r)

TabsSpec == TabsInit /\ [][TabsNext]_vars

----------------------------------------------------------------------------
(* Steps the properties speak about *)

\* a step of verify() (only verify leaves lastOp = "verify")
VerifyStep == lastOp' = "verify" /\ \E r \in Draws : verify(r)
\* a verify() that unlocked: PinGate is only there while hasAccess is false
VerifySucceeds == VerifyStep /\ hasAccess'
\* a step that runs checkSession() (only these leave lastOp = "checkSession")
CheckStep == lastOp' = "checkSession" /\ (MountEffects \/ Interval \/ onVis(FALSE))

\* a step that replaces activePin without a validation: Rotate PIN on the
\* lock screen and in the profile, a request-PIN send that is not refused,
\* the callback of a fulfilled copy-link promise
RotationStep ==
    \/ \E r \in Draws : PinGate_rotate(r)
    \/ \E r \in Draws : DebugPanel_rotate(r)
    \/ \E m \in Messages : Truthy(trim(m)) /\ send(m)
    \/ \E captured \in BagToSet(pending) : copySettled(captured, TRUE)
\* a step of the PIN state alone: a rotation, Set to 111-222, a click on
\* Copy link
PinOpStep ==
    \/ RotationStep
    \/ PinGate_setTestPin
    \/ DebugPanel_setTestPin
    \/ copy

Last(s) == s[Len(s)]

----------------------------------------------------------------------------
(* Properties *)

\* C1: isValidPin(S, c) returns true exactly when c is non-empty, equals
\* S.activePin and is no element of S.usedPins, and the call writes nothing.
C1_isValidPinExact ==
    [][Pure_isValidPin =>
        /\ ret' \in {"true", "false"}
        /\ (ret' = "true") <=>
             /\ input # EmptyText
             /\ input = pinState.activePin
             /\ \A i \in 1..Len(pinState.usedPins) : pinState.usedPins[i] # input
        /\ UNCHANGED <<pinState, input, localStorage, sessionStorage, hasAccess>>]_vars

C1_Witness ==
    /\ lastOp = "isValidPin"
    /\ ret = "false"
    /\ input = pinState.activePin
    /\ input \in Elems(pinState.usedPins)

\* C2: a PIN with which verify has once succeeded never makes a later verify
\* succeed.
C2_SingleUse ==
    [][VerifySucceeds => ~(trim(input) \in redeemed)]_vars

\* C3: in every reachable pin state activePin is no element of usedPins.
C3_ActiveNotUsed ==
    phase # "pure" => ~(pinState.activePin \in Elems(pinState.usedPins))

\* C4: consumePin(S, p) with p = S.activePin has p in its usedPins, keeps
\* every element of S.usedPins, and isValidPin of the result and p is false.
C4_ConsumeMarksUsed ==
    [][\A r \in Draws : Pure_consumePin(r) =>
        LET p == pinState.activePin
        IN  /\ p \in Elems(pinState'.usedPins)
            /\ Elems(pinState.usedPins) \subseteq Elems(pinState'.usedPins)
            /\ ~isValidPin(pinState', p)]_vars

C4_Witness ==
    /\ lastOp = "consumePin"
    /\ Len(pinState.usedPins) >= 2
    /\ pinState.usedPins[1] # Last(pinState.usedPins)
    /\ pinState.activePin # Last(pinState.usedPins)

\* C5: after a successful verify of p = activePin (which calls
\* consumePin(S, p)) the new activePin has the form NNN-NNN and differs
\* from p, whatever generatePin returns.
C5_FreshPinDiffers ==
    [][VerifySucceeds =>
        /\ IsPinFormat(pinState'.activePin)
        /\ pinState'.activePin # trim(input)]_vars

\* C6: a checkSession at time now grants access and leaves the stored grant
\* alone when the flag is set and now < expiresAt; in every other case it
\* clears flag and expiresAt and sets access to false.
C6_GrantStored ==
    LET flag == sessionStorage[SESSION_OK_KEY]
        expRaw == sessionStorage[SESSION_EXP_KEY]
    IN  /\ flag = <<"1">>
        /\ expRaw # Null
        /\ expRaw # EmptyText
        /\ \A i \in 1..Len(expRaw) : expRaw[i] \in DigitSet
        /\ now < DecimalValue(expRaw)

C6_CheckSession ==
    [][CheckStep =>
        IF C6_GrantStored
        THEN hasAccess' /\ UNCHANGED sessionStorage
        ELSE /\ ~hasAccess'
             /\ sessionStorage'[SESSION_OK_KEY] = Null
             /\ sessionStorage'[SESSION_EXP_KEY] = Null]_vars

\* a check has just cleared a grant that a verify of this session started
C6_Witness ==
    /\ lastOp = "checkSession"
    /\ ~hasAccess
    /\ startAt >= 0
    /\ now >= startAt + 300000
    /\ sessionStorage = NoSession

\* C7: after a start at t0 (a successful verify), whatever checks came in
\* between, a check at t < t0 + 300000 grants access and a check at
\* t >= t0 + 300000 denies it.
C7_WindowFromStart ==
    [][CheckStep /\ startAt >= 0 => (hasAccess' <=> now < startAt + 300000)]_vars

\* a check granted access one millisecond before the end of the window
C7_Witness ==
    /\ lastOp = "checkSession"
    /\ hasAccess
    /\ startAt >= 0
    /\ now = startAt + 299999

\* C8: once a check has denied access, every later check denies it too, and
\* access stays false, until a verify succeeds.
C8_NoResurrection ==
    [][denied /\ ~VerifySucceeds => ~hasAccess']_vars

\* a check denied access, time went on, and a later check ran
C8_Witness ==
    /\ denied
    /\ lastOp = "checkSession"
    /\ startAt >= 0
    /\ now > startAt + 300000

\* C9: a successful verify leaves, in one step, the flag set, expiresAt =
\* now + 300000, access true, the presented PIN in usedPins (stored too) and
\* activePin a generatePin() value.
C9_VerifyAtomic ==
    [][VerifyStep /\ isValidPin(pinState, trim(input)) =>
        /\ sessionStorage'[SESSION_OK_KEY] = <<"1">>
        /\ Number(sessionStorage'[SESSION_EXP_KEY]) = [isNaN |-> FALSE, val |-> now + 300000]
        /\ hasAccess'
        /\ trim(input) \in Elems(pinState'.usedPins)
        /\ \E r \in Draws : pinState'.activePin = generatePin(r)
        /\ localStorage'[PIN_STATE_KEY] = <<pinState'>>]_vars

\* right after a successful verify
C9_Witness ==
    /\ lastOp = "verify"
    /\ ret = "true"
    /\ hasAccess
    /\ startAt = now
    /\ now > 0
    /\ Len(pinState.usedPins) >= 2

\* C10: a failed verify (the PIN it passes to isValidPin is empty, differs
\* from activePin, or is in usedPins) changes neither the pin state nor the
\* session grant, access stays false, and PinGate is still there for a retry.
C10_FailedVerify ==
    [][(/\ VerifyStep
        /\ LET pin == trim(input)
           IN  \/ pin = EmptyText
               \/ pin # pinState.activePin
               \/ pin \in Elems(pinState.usedPins))
       => /\ UNCHANGED <<pinState, localStorage, sessionStorage, hasAccess, input>>
          /\ ~hasAccess'
          /\ PinGateMounted']_vars

\* a verify of the active PIN failed because that PIN is in usedPins
C10_Witness ==
    /\ lastOp = "verify"
    /\ ret = "false"
    /\ info = INVALID_MSG
    /\ trim(input) = pinState.activePin
    /\ trim(input) \in Elems(pinState.usedPins)

\* C11: a verify that fails validation gives the same outcome whether the
\* presented PIN is a wrong one (not the active PIN) or an already-used one
\* (in usedPins): the one message INVALID_MSG, and no other change of state.
C11_SameOutcome ==
    [][(/\ VerifyStep
        /\ LET pin == trim(input)
           IN  /\ pin # EmptyText
               /\ \/ pin # pinState.activePin
                  \/ pin \in Elems(pinState.usedPins))
       => /\ info' = INVALID_MSG
          /\ UNCHANGED <<phase, now, pinState, localStorage, sessionStorage, hasAccess,
                         input, requesting, pending>>]_vars

\* a verify failed for a PIN that is not the active one and was never used,
\* in a pin state that holds used PINs (C10_Witness is the other cause)
C11_Witness ==
    /\ lastOp = "verify"
    /\ ret = "false"
    /\ info = INVALID_MSG
    /\ trim(input) # pinState.activePin
    /\ ~(trim(input) \in Elems(pinState.usedPins))
    /\ pinState.usedPins # <<>>

\* C12: every step that takes session storage from no grant (flag missing,
\* or expiry missing, not a number or not after now) to a grant is a verify
\* step whose isValidPin call returned true.
C12_GrantOnlyByVerify ==
    [][~C6_GrantStored /\ C6_GrantStored'
        => VerifyStep /\ isValidPin(pinState, trim(input)) /\ ret' = "true"]_vars

\* a second grant was started after the first one had been cleared
C12_Witness ==
    /\ lastOp = "verify"
    /\ ret = "true"
    /\ C6_GrantStored
    /\ Cardinality(redeemed) >= 2

\* C13: right after a page load access is false whatever session storage
\* holds; a step other than a successful verify makes access true only if it
\* is a check that finds the flag set and now < expiresAt; and the first
\* check after a load, when the flag is stored with a missing or past
\* expiry, leaves access false and clears the flag.
C13_StartsLocked ==
    /\ [](phase = "boot" => ~hasAccess)
    /\ [][/\ (~hasAccess /\ hasAccess' /\ ~VerifySucceeds
                => CheckStep /\ C6_GrantStored)
          /\ (MountEffects /\ sessionStorage[SESSION_OK_KEY] = <<"1">> /\ ~C6_GrantStored
                => /\ ~hasAccess'
                   /\ sessionStorage'[SESSION_OK_KEY] = Null
                   /\ sessionStorage'[SESSION_EXP_KEY] = Null)]_vars

\* the check of a mount gave access with no PIN entered in this client
\* session, from a flag and an expiry found in session storage
C13_Witness ==
    /\ lastOp = "checkSession"
    /\ hasAccess
    /\ startAt = -1
    /\ redeemed = {}

\* C14: from every session state one call of revoke leaves the flag
\* cleared, expiresAt cleared and access false (and touches nothing else),
\* and a call that follows a call of revoke changes nothing.
C14_RevokeIdempotent ==
    [][Session_revoke =>
        /\ sessionStorage'[SESSION_OK_KEY] = Null
        /\ sessionStorage'[SESSION_EXP_KEY] = Null
        /\ ~hasAccess'
        /\ UNCHANGED <<pinState, localStorage>>
        /\ (lastOp \in {"revoke", "revoke twice"}
              => UNCHANGED <<sessionStorage, hasAccess>>)]_vars

\* revoke was called twice in a row on a grant that had not expired
C14_Witness ==
    /\ lastOp = "revoke twice"
    /\ startAt >= 0
    /\ now < startAt + 300000

\* C15: every rotation step (Rotate PIN on the lock screen and in the
\* profile, request-PIN send, the copy-link callback) sets activePin to a
\* generatePin() value and leaves usedPins as it is in the pin state the
\* step finds.
C15_RotationKeepsUsed ==
    [][pinState' # pinState /\ RotationStep =>
        /\ pinState'.usedPins = pinState.usedPins
        /\ \E r \in Draws : pinState'.activePin = generatePin(r)]_vars

\* C16: a step of the PIN state alone (rotation, Set to 111-222,
\* request-PIN, copy-link) leaves flag, expiresAt and access unchanged, and a
\* checkSession step (revoke included) leaves activePin and usedPins
\* unchanged, in React state and in local storage.
C16_Independent ==
    [][/\ (sessionStorage' # sessionStorage \/ hasAccess' # hasAccess => ~PinOpStep)
       /\ (CheckStep =>
             /\ UNCHANGED pinState
             /\ localStorage'[PIN_STATE_KEY] = JSON_stringify(pinState))]_vars

\* the active PIN was replaced in the profile during a granted session, and
\* the session is still there
C16_Witness ==
    /\ lastOp = "DebugPanel"
    /\ hasAccess
    /\ C6_GrantStored
    /\ startAt >= 0
    /\ now > startAt
    /\ pinState.activePin \in Elems(pinState.usedPins)

\* C18: closing and reopening the client leaves session storage empty and
\* access false, so that the check of the new mount denies access, whether
\* the grant had expired, had been cleared or was still running; the pin
\* state it starts with is the one last written to local storage, and every
\* PIN in its usedPins before the restart is in usedPins and fails
\* validation after it.
C18_Reopen ==
    [][/\ (lastOp' = "load" /\ PageLoad(FALSE) =>
             /\ sessionStorage' = NoSession
             /\ ~hasAccess'
             /\ ~C6_GrantStored'
             /\ pinState' = JSON_parse(localStorage[PIN_STATE_KEY])
             /\ pinState' = pinState
             /\ UNCHANGED localStorage
             /\ \A i \in 1..Len(pinState.usedPins) :
                  /\ pinState.usedPins[i] \in Elems(pinState'.usedPins)
                  /\ ~isValidPin(pinState', pinState.usedPins[i]))
       /\ (lastOp = "load" /\ sessionStorage = NoSession /\ MountEffects =>
             /\ ~hasAccess'
             /\ UNCHANGED pinState)]_vars

\* the client was reopened while a grant had not expired; the new mount
\* denied access, and the PIN redeemed before is still in usedPins
C18_Witness ==
    /\ lastOp = "checkSession"
    /\ startAt = -1
    /\ ~hasAccess
    /\ redeemed # {}
    /\ redeemed \subseteq Elems(pinState.usedPins)
    /\ now < 300000

\* C17: whatever storage call throws, no exception escapes from
\* checkSession, revoke, verify or the loading and saving of the pin state,
\* and an operation that met a failing storage call leaves access false.
C17_FailClosed ==
    /\ ~(thrown \in {"checkSession", "revoke", "verify", "load", "save"})
    /\ (thrown # "none" => ~hasAccess)

\* C19: an importData that finds in the textarea the text exportData wrote
\* for a list of records sets the content store to that list (same records,
\* same order, same field values), whatever the store holds by then, and
\* neither export nor import changes the pin state or the session grant.
C19_RoundTrip ==
    [][/\ (importData /\ exported # <<>> =>
             /\ ret' = "Imported!"
             /\ items' = exported[1].list)
       /\ (exportData \/ importData =>
             UNCHANGED <<pinState, sessionStorage, hasAccess>>
             /\ localStorage'[PIN_STATE_KEY] = localStorage[PIN_STATE_KEY])]_vars

\* two records, one with a quote, a backslash and a line break in its title,
\* were exported, deleted from the store and imported again
C19_Witness ==
    /\ lastOp = "importData"
    /\ exported # <<>>
    /\ exported[1].changed
    /\ Len(items) = 2
    /\ items[1] # items[2]
    /\ \E i \in 1..2 : QUOTE \in Elems(Member(items[i], <<"t", "i", "t", "l", "e">>).s)

\* C20: with the poll on schedule, access is never true 5000 ms or more
\* after the stored expiresAt, and whenever access is true at or after
\* expiresAt it becomes false through the clock and the timer alone.
C20_Expired ==
    LET expRaw == sessionStorage[SESSION_EXP_KEY]
    IN  /\ expRaw # Null
        /\ Elems(expRaw) \subseteq DigitSet
        /\ now >= DecimalValue(expRaw)

C20_BoundedLag ==
    /\ [](hasAccess /\ C20_Expired
            => now < DecimalValue(sessionStorage[SESSION_EXP_KEY]) + 5000)
    /\ ((hasAccess /\ C20_Expired) ~> ~hasAccess)

\* a session started 1 ms after a poll is still shown at the poll 4999 ms
\* after its expiry, which is about to end it
C20_Witness ==
    /\ hasAccess
    /\ startAt >= 0
    /\ now = startAt + 300000 + 4999
    /\ now = nextPoll

\* C21 as stated: a verify of a presented text that differs from activePin
\* in any character, leading and trailing spaces included, starts no session
\* and consumes no PIN.
C21_ExactEquality ==
    [][VerifyStep /\ input # pinState.activePin
        => ~hasAccess' /\ UNCHANGED <<pinState, sessionStorage>>]_vars

\* C21, amended: verify strips leading and trailing white space from the
\* presented text and compares what is left with activePin character by
\* character; when that differs from activePin, verify starts no session and
\* consumes no PIN, and a verify that unlocks consumes exactly that text.
C21_TrimmedExact ==
    [][VerifyStep =>
        /\ (trim(input) # pinState.activePin
              => ~hasAccess' /\ UNCHANGED <<pinState, sessionStorage, localStorage>>)
        /\ (hasAccess'
              => /\ trim(input) = pinState.activePin
                 /\ Last(pinState'.usedPins) = pinState.activePin)]_vars

\* a verify of " 111-222 " failed while another PIN was active, and 111-222
\* had not been used
C21_Witness ==
    /\ lastOp = "verify"
    /\ ret = "false"
    /\ input = <<" ">> \o TEST_PIN \o <<" ">>
    /\ pinState.activePin # TEST_PIN
    /\ ~(TEST_PIN \in Elems(pinState.usedPins))

\* C22: generatePin returns a text of the form NNN-NNN for the least, the
\* greatest and every other draw, and in every reachable state activePin has
\* that form, in React state and in the pin state written to local storage,
\* whichever operation wrote it.
C22_EdgeForms == \A r \in EdgeDraws \cup Draws : IsPinFormat(generatePin(r))

C22_PinFormat ==
    /\ C22_EdgeForms
    /\ phase # "pure" =>
          /\ IsPinFormat(pinState.activePin)
          /\ localStorage[PIN_STATE_KEY] # <<>>
                => IsPinFormat(JSON_parse(localStorage[PIN_STATE_KEY]).activePin)

\* the active PIN was written by the copy-link callback after verify,
\* Set to 111-222 or a rotation had written it, and is not the test PIN
C22_Witness ==
    /\ phase = "run"
    /\ lastOp = "other"
    /\ pending = EmptyBag
    /\ redeemed # {}
    /\ pinState.activePin # TEST_PIN
    /\ TEST_PIN \in Elems(pinState.usedPins)
    /\ IsPinFormat(pinState.activePin)

\* C23: the callback of a fulfilled copy-link promise drops no entry of
\* usedPins: every PIN in usedPins when the callback runs, a PIN consumed by
\* a verify since the click on Copy link included, is in usedPins after it,
\* in React state and in local storage.
C23_NoLostEntry ==
    [][\A captured \in BagToSet(pending) :
         copySettled(captured, TRUE) =>
            /\ Elems(pinState.usedPins) \subseteq Elems(pinState'.usedPins)
            /\ Elems(pinState.usedPins)
                  \subseteq Elems(JSON_parse(localStorage'[PIN_STATE_KEY]).usedPins)]_vars

\* C24: in every reachable state with access true, session storage holds
\* the flag "1" and an expiresAt that is a number; when a verify has
\* succeeded in this client session, it is the expiresAt that verify wrote.
C24_AccessBacked ==
    hasAccess =>
        /\ sessionStorage[SESSION_OK_KEY] = <<"1">>
        /\ sessionStorage[SESSION_EXP_KEY] # Null
        /\ ~Number(sessionStorage[SESSION_EXP_KEY]).isNaN
        /\ startAt >= 0
              => sessionStorage[SESSION_EXP_KEY] = String(startAt + SESSION_TTL_MS)

\* access is still shown at the end of the window, before a check has run:
\* the grant of the verify is still stored
C24_Witness ==
    /\ hasAccess
    /\ startAt >= 0
    /\ now >= startAt + 300000
    /\ sessionStorage[SESSION_OK_KEY] = <<"1">>

\* C25: with two tabs sharing local storage, a verify in either tab never
\* succeeds with a PIN that a verify (in either tab) has redeemed before, and
\* every redeemed PIN is in the usedPins of the pin state in local storage,
\* whichever tab wrote it last.
C25_SharedHistory ==
    [][/\ (VerifySucceeds => ~(trim(input) \in redeemed))
       /\ (localStorage'[PIN_STATE_KEY] # <<>> =>
             redeemed' \subseteq Elems(JSON_parse(localStorage'[PIN_STATE_KEY]).usedPins))]_vars

====
